---- MODULE Spec2Model ----
(***************************************************************************)
(* Byte-level model of the buddy allocator of                              *)
(* src/dynamic-storage-allocation/BuddyAllocator.cpp.                      *)
(*                                                                         *)
(* The arena m_buff is modelled byte by byte, because a free block keeps   *)
(* its MemoryBlock record (available, k, prev, next) inside the arena and  *)
(* sizeof(MemoryBlock), three pointers wide, may exceed the block.  The    *)
(* sentinels m_blocks[0..m] live outside the arena.                        *)
(*                                                                         *)
(* A pointer value is <<kind, idx>>:                                       *)
(*   <<"S", k>>   &m_blocks[k]                                             *)
(*   <<"B", off>> m_buff + off                                             *)
(*   <<"W", 0>>   a value that is no address the allocator owns            *)
(*   <<"I", 0>>   an indeterminate (never initialised) value               *)
(* A byte of memory is <<kind, idx, i>>:                                   *)
(*   <<"N", v, 0>>   the number v                                          *)
(*   <<"U", 0, 0>>   a byte of caller data                                 *)
(*   <<"X", 0, 0>>   a byte beyond the arena that nobody wrote             *)
(*   <<kind, idx, i>> byte i of the stored pointer <<kind, idx>>           *)
(***************************************************************************)
EXTENDS Integers, Sequences, FiniteSets, TLC

VARIABLES m_order, ptrSize, m_buff, m_blocks, used, status, result, live, misuse, relied, shape, before, ops, limit

\* m_order, m_buff, m_blocks, used   the members of BuddyAllocator
\* ptrSize   the width of a pointer of the build: 4 or 8 bytes
\* status    "ok", or "corrupt" once a call has left the memory the allocator owns
\* result    the last call, what it returned or threw, and the turns its loops took
\* live      the pointers the caller holds, with the size asked for
\* misuse    the caller has freed a pointer the registry did not hold
\* relied    some call went on from an unspecified value or past the arena
\* shape, before   what the caller can tell about the run (see below)
\* ops, limit      the calls made, and how many a run is followed for
vars == <<m_order, ptrSize, m_buff, m_blocks, used, status, result, live, misuse, relied, shape, before, ops, limit>>

(***************************************************************************)
(* Bounds of the exploration.                                              *)
(***************************************************************************)
MaxOps == 5

MaxLongOps == 8

Orders == {6, 8}

PtrSizes == {4, 8}

Sizes == {0, 1, 4, 11, 20, 64, 256}

StalePtrs == {1}

\* the request sizes of the longer runs: one for each of the orders 3, 4 and 5
LongSizes == {4, 11, 20}

(***************************************************************************)
(* Integer helpers: the bit operations of the C++ code.                    *)
(***************************************************************************)
RECURSIVE BitOr(_, _)
BitOr(a, b) ==
    IF a = 0 THEN b
    ELSE IF b = 0 THEN a
    ELSE (IF (a % 2 = 1) \/ (b % 2 = 1) THEN 1 ELSE 0) + 2 * BitOr(a \div 2, b \div 2)

RECURSIVE BitXor(_, _)
BitXor(a, b) ==
    IF a = 0 THEN b
    ELSE IF b = 0 THEN a
    ELSE (IF (a % 2) # (b % 2) THEN 1 ELSE 0) + 2 * BitXor(a \div 2, b \div 2)

Shr(v, n) == v \div (2 ^ n)

\* uint32_t v = input; v--; v |= v >> 1; ... v |= v >> 8; v++; return (uint16_t) v.
\* For input = 0 the decrement wraps to 2^32 - 1, every OR keeps it and the
\* increment wraps to 0; for input in 1..65535 nothing wraps before the return.
nextPowerOfTwo(input) ==
    IF input = 0 THEN 0
    ELSE LET v0 == input - 1
             v1 == BitOr(v0, Shr(v0, 1))
             v2 == BitOr(v1, Shr(v1, 2))
             v3 == BitOr(v2, Shr(v2, 4))
             v4 == BitOr(v3, Shr(v3, 8))
             v5 == v4 + 1
         IN  v5 % (2 ^ 16)

RECURSIVE Log2Loop(_, _)
Log2Loop(blockSize, k) ==
    IF Shr(blockSize, 1) # 0 THEN Log2Loop(Shr(blockSize, 1), k + 1) ELSE k

\* the order alloc searches for, from the requested byte count (1..255)
TargetOrder(bytes) == Log2Loop(nextPowerOfTwo(bytes + 1), 0)

getBuddy(block, k) == BitXor(block, 2 ^ k)

toUserSpace(block) == block + 1

fromUserSpace(address) == address - 1

(***************************************************************************)
(* Memory.                                                                 *)
(***************************************************************************)
Wild == <<"W", 0>>

Indet == <<"I", 0>>

Sent(k) == <<"S", k>>

Blk(off) == <<"B", off>>

Num(v) == <<"N", v, 0>>

UserByte == <<"U", 0, 0>>

NoByte == <<"X", 0, 0>>

ArenaSize == 2 ^ m_order

\* struct MemoryBlock { union { struct { bool available; uint8_t k; }; ... }; MemoryBlock *prev, *next; }
AvailOff == 0

KOff == 1

PrevOff == ptrSize

NextOff == 2 * ptrSize

SizeofMemoryBlock == 3 * ptrSize

MemTop == ArenaSize + SizeofMemoryBlock - 1

FieldOff(f) == IF f = "prev" THEN PrevOff ELSE NextOff

\* a heap: the arena bytes, the sentinels, whether the execution has
\* dereferenced a pointer it does not own (und), touched bytes beyond the arena
\* (oob), or went on from a value the language leaves unspecified (luck), and
\* how many turns the loops of the call have taken (work)
Heap(mem, sent) ==
    [mem |-> mem, sent |-> sent, und |-> FALSE, oob |-> FALSE, luck |-> FALSE, work |-> 0]

\* one more turn of a loop of the call
Turn(h) == [h EXCEPT !.work = @ + 1]

Touch(h, a, n) == [h EXCEPT !.oob = @ \/ (a + n > ArenaSize)]

WriteByte(h, a, b) ==
    IF h.und THEN h
    ELSE Touch([h EXCEPT !.mem = [@ EXCEPT ![a] = b]], a, 1)

RECURSIVE StoreBytes(_, _, _, _)
StoreBytes(mem, a, p, i) ==
    IF i = ptrSize THEN mem
    ELSE StoreBytes([mem EXCEPT ![a + i] = <<p[1], p[2], i>>], a, p, i + 1)

WritePtr(h, a, p) ==
    IF h.und THEN h
    ELSE Touch([h EXCEPT !.mem = StoreBytes(@, a, p, 0)], a, ptrSize)

\* the pointer stored in the ptrSize bytes at a: a pointer only when all its bytes
\* are the bytes of one stored pointer
ReadPtr(mem, a) ==
    LET b0 == mem[a]
    IN  IF /\ b0[1] \in {"S", "B"}
           /\ \A i \in 0 .. (ptrSize - 1) : mem[a + i] = <<b0[1], b0[2], i>>
        THEN <<b0[1], b0[2]>>
        ELSE Wild

\* p->f = v
StoreField(h, p, f, v) ==
    IF h.und THEN h
    ELSE IF p[1] = "S" THEN [h EXCEPT !.sent = [@ EXCEPT ![p[2]] = [@ EXCEPT ![f] = v]]]
    ELSE IF p[1] = "B" THEN WritePtr(h, p[2] + FieldOff(f), v)
    ELSE [h EXCEPT !.und = TRUE]

\* a byte whose value the program fixed: a number it stored
Plain(b) == b[1] = "N"

\* the values `(bool at a) == 1` can take: a bool that holds neither 0 nor 1 is
\* no value of the type, and a byte of a pointer or of caller data can hold anything
AvailIsOne(mem, a) ==
    LET b == mem[a]
    IN  IF Plain(b) /\ b[2] = 1 THEN {TRUE}
        ELSE IF Plain(b) /\ b[2] = 0 THEN {FALSE}
        ELSE {TRUE, FALSE}

\* the values `(uint8_t at a) == k` can take
ByteEquals(mem, a, k) ==
    LET b == mem[a]
    IN  IF Plain(b) THEN {b[2] = k} ELSE {TRUE, FALSE}

(***************************************************************************)
(* BuddyAllocator::BuddyAllocator(m)                                       *)
(***************************************************************************)
InitSent(m, k) ==
    IF k = m THEN [next |-> Blk(0), prev |-> Blk(0)]
    ELSE IF k >= 3 /\ k < m THEN [next |-> Sent(k), prev |-> Sent(k)]
    ELSE [next |-> Indet, prev |-> Indet]

InitMem(m, ps) ==
    [a \in 0 .. ((2 ^ m) + 3 * ps - 1) |->
        IF a = 0 THEN Num(1)
        ELSE IF a = 1 THEN Num(m)
        ELSE IF a >= ps /\ a < 3 * ps THEN <<"S", m, (a - ps) % ps>>
        ELSE IF a < 2 ^ m THEN Num(0)
        ELSE NoByte]

\* no alloc whose bookkeeping is remembered
NoBefore == [stage |-> 0, ptr |-> 0, lists |-> << >>, used |-> << >>]

NoResult == [op |-> "new", arg |-> 0, out |-> "ok", ptr |-> 0, k |-> 0, work |-> 0]

Fresh(calls) ==
    /\ m_order \in Orders
    /\ ptrSize \in PtrSizes
    /\ m_buff = InitMem(m_order, ptrSize)
    /\ m_blocks = [k \in 0 .. m_order |-> InitSent(m_order, k)]
    /\ used = << >>
    /\ status = "ok"
    /\ result = NoResult
    /\ live = << >>
    /\ misuse = FALSE
    /\ relied = FALSE
    /\ shape = "allocs"
    /\ before = NoBefore
    /\ ops = 0
    /\ limit = calls

Init == Fresh(MaxOps)

(***************************************************************************)
(* The allocator's bookkeeping, read off the state the way alloc reads it and *)
(* a debugger would: list k is what following next from m_blocks[k] visits.  *)
(***************************************************************************)
MaxWalk == 40

Broken == 0 - 1

\* the offsets of the blocks of list k in list order; Broken marks a link that
\* is no block of the arena and no way back to the sentinel (the next link is
\* bound as a value before the walk goes on, so that a walk costs one read a block)
RECURSIVE Walk(_, _, _)
Walk(p, k, fuel) ==
    IF p = Sent(k) THEN << >>
    ELSE IF p[1] # "B" \/ fuel = 0 THEN <<Broken>>
    ELSE LET rest == {Walk(n, k, fuel - 1) : n \in {ReadPtr(m_buff, p[2] + NextOff)}}
         IN  <<p[2]>> \o (CHOOSE w \in rest : TRUE)

FreeList(k) ==
    IF m_blocks[k].next = Indet THEN << >> ELSE Walk(m_blocks[k].next, k, MaxWalk)

FreeLists == [k \in 0 .. m_order |-> FreeList(k)]

Range(seq) == {seq[i] : i \in 1 .. Len(seq)}

\* blocks as <<offset, order>>
FreeBlocks == UNION {{<<off, k>> : off \in Range(FreeList(k))} : k \in 0 .. m_order}

UsedBlocks == {<<off, used[off]>> : off \in DOMAIN used}

(***************************************************************************)
(* What the caller can tell about the run so far.                          *)
(*   shape   "allocs" while every call was an alloc; "frees" once frees    *)
(*           follow allocs that left no free block; "other" otherwise      *)
(*   before  the bookkeeping before the last successful alloc, kept while  *)
(*           the very next call frees the pointer that alloc returned      *)
(***************************************************************************)
NoFreeBlock == \A k \in 0 .. m_order : FreeList(k) = << >>

(***************************************************************************)
(* BuddyAllocator::alloc                                                   *)
(***************************************************************************)
\* the split loop going one order too far: while (j >= k) { --j; ... }
RECURSIVE SplitOneMore(_, _, _, _)
SplitOneMore(h, off, j, k) ==
    IF j < k THEN h
    ELSE LET j1 == j - 1
             nextBlock == getBuddy(off, j1)
             h1 == WriteByte(Turn(h), nextBlock + AvailOff, Num(1))
             h2 == WriteByte(h1, nextBlock + KOff, Num(j1))
             h3 == WritePtr(h2, nextBlock + PrevOff, Sent(j1))
             h4 == WritePtr(h3, nextBlock + NextOff, Sent(j1))
             h5 == [h4 EXCEPT !.sent = [@ EXCEPT ![j1] = [next |-> Blk(nextBlock),
                                                          prev |-> Blk(nextBlock)]]]
         IN  SplitOneMore(h5, off, j1, k)

\* while (j != k) { --j; ... }: the upper half of the block becomes the one block
\* of list j
RECURSIVE Split(_, _, _, _)
Split(h, off, j, k) ==
    IF j = k THEN h
    ELSE LET j1 == j - 1
             nextBlock == getBuddy(off, j1)
             h1 == WriteByte(Turn(h), nextBlock + AvailOff, Num(1))
             h2 == WriteByte(h1, nextBlock + KOff, Num(j1))
             h3 == WritePtr(h2, nextBlock + PrevOff, Sent(j1))
             h4 == WritePtr(h3, nextBlock + NextOff, Sent(j1))
             h5 == [h4 EXCEPT !.sent = [@ EXCEPT ![j1] = [next |-> Blk(nextBlock),
                                                          prev |-> Blk(nextBlock)]]]
         IN  Split(h5, off, j1, k)

Outcome(h, out, ptr, k) == [h |-> h, out |-> out, ptr |-> ptr, k |-> k]

\* list j is not empty: unlink its head, split it down to order k, hand it out
AllocTake(h, j, k) ==
    LET freeBlock == h.sent[j].next
    IN  IF freeBlock[1] # "B" THEN Outcome([h EXCEPT !.und = TRUE], "ok", 0, k)
        ELSE LET off == freeBlock[2]
                 nextBlock == ReadPtr(h.mem, off + NextOff)
                 h0 == Touch(h, off + NextOff, ptrSize)
                 h1 == [h0 EXCEPT !.sent = [@ EXCEPT ![j] = [@ EXCEPT !.next = nextBlock]]]
                 h2 == StoreField(h1, nextBlock, "prev", Sent(j))
                 h3 == WriteByte(h2, off + AvailOff, Num(0))
                 h4 == Split(h3, off, j, k)
             IN  Outcome(h4, "ok", toUserSpace(off), k)

\* the scan with its bound one order short: for (j = k; j < m_order; ++j)
RECURSIVE AllocScanShort(_, _, _)
AllocScanShort(h, j, k) ==
    IF j >= m_order THEN {Outcome(h, "Insufficient Memory!", 0, k)}
    ELSE LET nx == h.sent[j].next
             h0 == Turn(h)
         IN  IF nx = Indet
             THEN AllocScanShort([h0 EXCEPT !.luck = TRUE], j + 1, k)
                  \cup {Outcome([h0 EXCEPT !.und = TRUE], "ok", 0, k)}
             ELSE IF nx = Sent(j) THEN AllocScanShort(h0, j + 1, k)
             ELSE {AllocTake(h0, j, k)}

RECURSIVE AllocScan(_, _, _)
AllocScan(h, j, k) ==
    IF j > m_order THEN {Outcome(h, "Insufficient Memory!", 0, k)}
    ELSE LET nx == h.sent[j].next
             h0 == Turn(h)
         IN  IF nx = Indet
             THEN AllocScan([h0 EXCEPT !.luck = TRUE], j + 1, k)
                  \cup {Outcome([h0 EXCEPT !.und = TRUE], "ok", 0, k)}
             ELSE IF nx = Sent(j) THEN AllocScan(h0, j + 1, k)
             ELSE {AllocTake(h0, j, k)}

allocOutcomes(h, bytes) ==
    IF bytes <= 0 THEN {Outcome(h, "Har har har", 0, 0)}
    ELSE IF bytes >= 256 THEN {Outcome(h, "Insufficient Memory", 0, 0)}
    ELSE AllocScan(h, TargetOrder(bytes), TargetOrder(bytes))

\* what a heap that left the owned memory can go on as
Fates(h) ==
    IF h.und THEN {"corrupt"}
    ELSE IF h.oob THEN {"corrupt", "ok"}
    ELSE {"ok"}

\* the run goes on: the allocator is intact, and the exploration follows a run for
\* limit calls and not beyond a free of a pointer the registry does not hold
Running == status = "ok" /\ ~misuse /\ ops < limit

Put(f, x, v) == [y \in (DOMAIN f) \cup {x} |-> IF y = x THEN v ELSE f[y]]

Drop(f, x) == [y \in (DOMAIN f) \ {x} |-> f[y]]

alloc(bytes) ==
    /\ Running
    /\ \E o \in allocOutcomes(Heap(m_buff, m_blocks), bytes) :
       \E fate \in Fates(o.h) :
          /\ ops' = ops + 1
          /\ status' = fate
          /\ UNCHANGED <<m_order, ptrSize, misuse, limit>>
          /\ relied' = (relied \/ o.h.luck \/ o.h.oob)
          /\ IF fate = "ok"
             THEN /\ m_buff' = o.h.mem
                  /\ m_blocks' = o.h.sent
                  /\ result' = [op |-> "alloc", arg |-> bytes, out |-> o.out,
                                ptr |-> o.ptr, k |-> o.k, work |-> o.h.work]
                  /\ IF o.out = "ok"
                     THEN /\ used' = Put(used, fromUserSpace(o.ptr), o.k)
                          /\ live' = Put(live, o.ptr, bytes)
                          /\ shape' = IF shape = "allocs" THEN "allocs" ELSE "other"
                          /\ before' = [stage |-> 1, ptr |-> o.ptr, lists |-> FreeLists,
                                        used |-> used]
                     ELSE /\ before' = NoBefore
                          /\ UNCHANGED <<used, live, shape>>
             ELSE /\ result' = [op |-> "alloc", arg |-> bytes, out |-> "undefined",
                                ptr |-> 0, k |-> o.k, work |-> 0]
                  /\ before' = NoBefore
                  /\ UNCHANGED <<m_buff, m_blocks, used, live, shape>>

(***************************************************************************)
(* BuddyAllocator::free                                                    *)
(***************************************************************************)
\* buddy->prev->next = buddy->next; buddy->next->prev = buddy->prev;
Unlink(h, buddy) ==
    LET h0 == Touch(h, buddy + NextOff, ptrSize)
        h1 == StoreField(h0, ReadPtr(h0.mem, buddy + PrevOff), "next",
                         ReadPtr(h0.mem, buddy + NextOff))
    IN  StoreField(h1, ReadPtr(h1.mem, buddy + NextOff), "prev",
                   ReadPtr(h1.mem, buddy + PrevOff))

Merged(h, block, k) == [h |-> h, block |-> block, k |-> k]

\* while (k != m_order && buddy->available == 1 && buddy->k == k) { ... }
RECURSIVE Coalesce(_, _, _)
Coalesce(h, block, k) ==
    IF k = m_order \/ h.und THEN {Merged(h, block, k)}
    ELSE LET buddy == getBuddy(block, k)
             av == AvailIsOne(h.mem, buddy + AvailOff)
             km == ByteEquals(h.mem, buddy + KOff, k)
             h0 == Touch(h, buddy, 2)
             stop == (FALSE \in av) \/ (FALSE \in km)
             go == (TRUE \in av) /\ (TRUE \in km)
             guess == ~(Plain(h.mem[buddy + AvailOff]) /\ Plain(h.mem[buddy + KOff]))
             h1 == Turn([h0 EXCEPT !.luck = @ \/ guess])
         IN  (IF stop THEN {Merged(h0, block, k)} ELSE {})
             \cup (IF go
                   THEN Coalesce(Unlink(h1, buddy), IF buddy < block THEN buddy ELSE block,
                                 k + 1)
                   ELSE {})

\* block->next = nextBlock; nextBlock->prev = block; block->prev = &m_blocks[k];
\* m_blocks[k].next = block;
Link(h, block, k, nextBlock) ==
    LET h1 == WritePtr(h, block + NextOff, nextBlock)
        h2 == StoreField(h1, nextBlock, "prev", Blk(block))
        h3 == WritePtr(h2, block + PrevOff, Sent(k))
    IN  IF h3.und THEN h3
        ELSE [h3 EXCEPT !.sent = [@ EXCEPT ![k] = [@ EXCEPT !.next = Blk(block)]]]

\* block->available = 1; block->k = k; and the insertion at the head of list k
Insert(h, block, k) ==
    LET h1 == WriteByte(h, block + AvailOff, Num(1))
        h2 == WriteByte(h1, block + KOff, Num(k))
        nx == h2.sent[k].next
    IN  IF h2.und THEN {h2}
        ELSE IF nx = Indet
        THEN {Link([h2 EXCEPT !.luck = TRUE], block, k, Sent(k)),
              [h2 EXCEPT !.und = TRUE]}
        ELSE {Link(h2, block, k, nx)}

freeOutcomes(h, address) ==
    LET block == fromUserSpace(address)
        k == IF block \in DOMAIN used THEN used[block] ELSE 0
    IN  UNION {{Outcome(h2, "freed", address, c.k) : h2 \in Insert(c.h, c.block, c.k)} :
                c \in Coalesce(h, block, k)}

free(address) ==
    /\ Running
    /\ \E o \in freeOutcomes(Heap(m_buff, m_blocks), address) :
       \E fate \in Fates(o.h) :
          /\ ops' = ops + 1
          /\ status' = fate
          /\ UNCHANGED <<m_order, ptrSize, limit>>
          /\ misuse' = (misuse \/ fromUserSpace(address) \notin DOMAIN used)
          /\ relied' = (relied \/ o.h.luck \/ o.h.oob)
          /\ IF fate = "ok"
             THEN /\ m_buff' = o.h.mem
                  /\ m_blocks' = o.h.sent
                  /\ used' = Drop(used, fromUserSpace(address))
                  /\ live' = Drop(live, address)
                  /\ result' = [op |-> "free", arg |-> address, out |-> o.out,
                                ptr |-> o.ptr, k |-> o.k, work |-> o.h.work]
                  /\ shape' = IF shape = "frees" \/ (shape = "allocs" /\ NoFreeBlock)
                               THEN "frees" ELSE "other"
                  /\ before' = IF before.stage = 1 /\ before.ptr = address
                                THEN [before EXCEPT !.stage = 2] ELSE NoBefore
             ELSE /\ result' = [op |-> "free", arg |-> address, out |-> "undefined",
                                ptr |-> 0, k |-> 0, work |-> 0]
                  /\ before' = NoBefore
                  /\ UNCHANGED <<m_buff, m_blocks, used, live, shape>>

(***************************************************************************)
(* The caller fills the bytes it asked for (main: strcpy(foo, "HelloWorld")) *)
(***************************************************************************)
FillUser(mem, a, n) ==
    [x \in DOMAIN mem |-> IF x >= a /\ x < a + n THEN UserByte ELSE mem[x]]

write(address) ==
    /\ Running
    /\ address \in DOMAIN live
    /\ \E a \in address .. (address + live[address] - 1) : m_buff[a] # UserByte
    /\ m_buff' = FillUser(m_buff, address, live[address])
    /\ result' = [op |-> "write", arg |-> address, out |-> "ok", ptr |-> address, k |-> 0,
                  work |-> 0]
    /\ ops' = ops + 1
    /\ shape' = "other"
    /\ before' = NoBefore
    /\ UNCHANGED <<m_order, ptrSize, m_blocks, used, status, live, misuse, relied, limit>>

\* every block on record, free ones first, as <<offset, order>>
RECURSIVE ListBlocks(_)
ListBlocks(k) ==
    IF k > m_order THEN << >>
    ELSE [i \in 1 .. Len(FreeList(k)) |-> <<FreeList(k)[i], k>>] \o ListBlocks(k + 1)

RECURSIVE SetToSeq(_)
SetToSeq(S) ==
    IF S = {} THEN << >>
    ELSE LET x == CHOOSE y \in S : TRUE IN <<x>> \o SetToSeq(S \ {x})

AllBlocks == ListBlocks(0) \o SetToSeq(UsedBlocks)

Bytes(b) == b[1] .. (b[1] + (2 ^ b[2]) - 1)

RECURSIVE SumSizes(_, _)
SumSizes(seq, i) == IF i > Len(seq) THEN 0 ELSE (2 ^ seq[i][2]) + SumSizes(seq, i + 1)

ListsReadable == \A k \in 0 .. m_order : Broken \notin Range(FreeList(k))

\* the blocks on record tile the arena: none overlaps another, none is missing
Partition ==
    /\ ListsReadable
    /\ \A i, j \in 1 .. Len(AllBlocks) :
          i < j => Bytes(AllBlocks[i]) \cap Bytes(AllBlocks[j]) = {}
    /\ \A i \in 1 .. Len(AllBlocks) : Bytes(AllBlocks[i]) \subseteq 0 .. (ArenaSize - 1)
    /\ SumSizes(AllBlocks, 1) = ArenaSize

\* the state was reached by calls the interface allows and the allocator still
\* works on memory it owns
Sound == status = "ok" /\ ~misuse

\* ... and no step of the run went on from an unspecified value or from an access
\* beyond the arena: what every build of the code does
Certain == Sound /\ ~relied

Next ==
    \/ \E bytes \in Sizes : alloc(bytes)
    \/ \E address \in (DOMAIN live) \cup StalePtrs : free(address)
    \/ \E address \in DOMAIN live : write(address)

Spec == Init /\ [][Next]_vars

(***************************************************************************)
(* Longer runs of calls that succeed: allocs that return a pointer and     *)
(* frees of pointers the caller holds.                                     *)
(***************************************************************************)
LongInit == Fresh(MaxLongOps)

LongNext ==
    \/ \E bytes \in LongSizes : alloc(bytes) /\ result'.out = "ok"
    \/ \E address \in DOMAIN live : free(address)

LongSpec == LongInit /\ [][LongNext]_vars

(***************************************************************************)
(* The claims of the specification.                                        *)
(***************************************************************************)
\* an alloc or a free has just returned
Returned == ops > 0 /\ result.op \in {"alloc", "free"}

\* the smallest k with 2^k >= n, for n in 1..256
CeilLog2(n) == CHOOSE k \in 0 .. 8 : 2 ^ k >= n /\ (k = 0 \/ 2 ^ (k - 1) < n)

\* the order the specification gives a request of size bytes: one byte of
\* overhead, never below order 3
SpecOrder(bytes) == IF CeilLog2(bytes + 1) < 3 THEN 3 ELSE CeilLog2(bytes + 1)

\* the list a fresh allocator has: one free block of order m_order at offset 0
FreshLists == [k \in 0 .. m_order |-> IF k = m_order THEN <<0>> ELSE << >>]

\* every list from order k up is empty by the test alloc applies
EmptyFrom(k) == \A j \in k .. m_order : m_blocks[j].next = Sent(j)

\* C1: after any sequence of successful alloc and free calls the free blocks of the
\* lists and the used blocks of the registry are pairwise disjoint and cover
\* exactly [0, 2^M): no byte is in two blocks, none is in no block.
C1_Partition == (Certain /\ ListsReadable) => Partition

\* C2: free of a pointer the registry does not hold fails with InvalidFree and
\* leaves every free list and the registry as they were.
C2_InvalidFree ==
    [][(misuse' /\ ~misuse) =>
          (result'.out = "InvalidFree" /\ FreeLists' = FreeLists /\ used' = used)]_vars

\* C3: once an alloc or free has returned, no block of order k < M and its buddy
\* of the same order are both in free list k.
C3_NoFreeBuddies ==
    (Certain /\ Returned) =>
        \A b \in FreeBlocks :
            (b[1] # Broken /\ b[2] < m_order) => <<getBuddy(b[1], b[2]), b[2]>> \notin FreeBlocks

\* C4: the registry holds the blocks alloc returned and free has not taken back,
\* each with the order it was allocated at: a successful alloc adds one entry, a
\* free removes one entry, and nothing else changes the registry.
C4_Registry ==
    [][(Certain' /\ ops' # ops) =>
          /\ (result'.op = "alloc" /\ result'.out = "ok") =>
                /\ Cardinality(DOMAIN used') = Cardinality(DOMAIN used) + 1
                /\ used'[fromUserSpace(result'.ptr)] = result'.k
                /\ \A b \in DOMAIN used : used'[b] = used[b]
          /\ (result'.op = "free") =>
                /\ Cardinality(DOMAIN used') = Cardinality(DOMAIN used) - 1
                /\ \A b \in DOMAIN used' : used'[b] = used[b]
          /\ (result'.op = "write" \/ (result'.op = "alloc" /\ result'.out # "ok")) =>
                used' = used]_vars

\* C5: from a fresh allocator, allocs that tile the arena followed by frees of all
\* their pointers, in any order, end with one free block of order M at offset 0
\* and an empty registry.
C5_TileThenFree ==
    (Certain /\ shape = "frees" /\ live = << >>) => (FreeLists = FreshLists /\ used = << >>)

\* C6: a successful alloc immediately followed by the free of the pointer it
\* returned restores the free lists, list order included, and the registry.
C6_AllocFreeRestores ==
    (Certain /\ before.stage = 2) => (FreeLists = before.lists /\ used = before.used)

\* C7: the pointer a successful alloc returns is, as an offset into the arena, a
\* multiple of the size 2^k of the block reserved for the request.
C7_PointerAligned ==
    (Certain /\ result.op = "alloc" /\ result.out = "ok") => result.ptr % (2 ^ result.k) = 0

\* C8: for a size in 1..255 the order alloc searches for and records is
\* max(3, ceil(log2(size + 1))): 3 for the sizes 1, 2, 3 and 4, 4 for size 11.
C8_TargetOrder ==
    (result.op = "alloc" /\ result.arg \in 1 .. 255) =>
        /\ result.k = SpecOrder(result.arg)
        /\ (status = "ok" /\ result.out = "ok") => used[fromUserSpace(result.ptr)] = SpecOrder(result.arg)

\* C9: the MemoryBlock record of a free block of order k lies inside the block's
\* own 2^k bytes, so an alloc or a free changes no byte another used block's
\* caller owns.
C9_MetadataInside ==
    [][(Certain' /\ ops' # ops /\ result'.op \in {"alloc", "free"}) =>
          /\ \A b \in FreeBlocks' : SizeofMemoryBlock <= 2 ^ b[2]
          /\ \A p \in (DOMAIN live) \cap (DOMAIN live') :
                \A a \in p .. (p + live[p] - 1) : m_buff'[a] = m_buff[a]]_vars

\* C10: an alloc of a size in 1..255 that finds every list from its target order to
\* M empty fails with "Insufficient Memory!", and an alloc that fails so found them
\* empty and left the arena, the lists and the registry as they were.
C10_OutOfMemory ==
    [][(ops' # ops /\ result'.op = "alloc" /\ result'.arg \in 1 .. 255) =>
          /\ EmptyFrom(TargetOrder(result'.arg)) =>
                (status' = "ok" /\ result'.out = "Insufficient Memory!")
          /\ result'.out = "Insufficient Memory!" =>
                /\ \A j \in TargetOrder(result'.arg) .. m_order :
                      m_blocks[j].next \in {Sent(j), Indet}
                /\ m_buff' = m_buff /\ m_blocks' = m_blocks
                /\ FreeLists' = FreeLists /\ used' = used /\ live' = live]_vars

\* C10 witness: with two blocks handed out, an alloc has failed for lack of memory
C10_Witness ==
    /\ Certain
    /\ result.op = "alloc" /\ result.out = "Insufficient Memory!"
    /\ Cardinality(DOMAIN used) >= 2

\* C11: an alloc of a size whose order by the specification exceeds M, every size
\* from 256 included, fails with the error for a size too large, "Insufficient
\* Memory", not the one for an exhausted arena, and leaves the lists and the
\* registry as they were.
C11_SizeTooLarge ==
    [][(ops' # ops /\ result'.op = "alloc" /\ result'.arg > 0
            /\ (result'.arg >= 256 \/ SpecOrder(result'.arg) > m_order)) =>
          (result'.out = "Insufficient Memory" /\ FreeLists' = FreeLists /\ used' = used)]_vars

\* C12: the lists of the orders 0, 1 and 2 hold no block, no alloc starts its scan
\* at one of them, and no block of an order below 3 is registered.
C12_LowListsUnused ==
    /\ (result.op = "alloc" /\ result.arg \in 1 .. 255) => result.k >= 3
    /\ status = "ok" =>
          /\ \A k \in 0 .. 2 : FreeList(k) = << >>
          /\ \A b \in DOMAIN used : used[b] >= 3

\* C13: on a fresh allocator of order 8, alloc(4) leaves one registry entry, of
\* order 3, and one free block in each of the lists 4, 5, 6 and 7; the free of that
\* pointer ends with one free block of order 8 and an empty registry.
C13_AllocFourScenario ==
    [][(m_order = 8 /\ ops = 1 /\ status = "ok" /\ result.op = "alloc" /\ result.arg = 4
            /\ result.out = "ok") =>
          /\ used = (fromUserSpace(result.ptr) :> 3)
          /\ \A k \in 4 .. 7 : Len(FreeList(k)) = 1
          /\ (Certain' /\ result'.op = "free") => (FreeLists' = FreshLists /\ used' = << >>)]_vars

\* C14: every block of a free list or of the registry is at an offset that is a
\* multiple of 2^order for its own order.
C14_BlocksAligned ==
    Certain => \A b \in FreeBlocks \cup UsedBlocks : b[1] # Broken => b[1] % (2 ^ b[2]) = 0

\* C15: every alloc and every free runs a bounded number of loop turns: a failing
\* scan looks at each order from the target order to M once; a successful alloc
\* looks at the orders from the target order k up to the order j of the first
\* list that is not empty, once each, and splits j - k times; free's loop raises k
\* by one each turn and ends with k at most M.
C15_Terminates ==
    [][(ops' # ops /\ status' = "ok") =>
          /\ (result'.op = "alloc" /\ result'.arg \in 1 .. 255) =>
                LET k == TargetOrder(result'.arg)
                IN  /\ result'.out = "Insufficient Memory!" =>
                          result'.work = (IF k > m_order THEN 0 ELSE m_order - k + 1)
                    /\ result'.out = "ok" =>
                          \E j \in k .. m_order :
                             /\ m_blocks[j].next \notin {Sent(j), Indet}
                             /\ \A i \in k .. (j - 1) : m_blocks[i].next \in {Sent(i), Indet}
                             /\ result'.work = (j - k + 1) + (j - k)
          /\ result'.op = "free" =>
                LET block == fromUserSpace(result'.arg)
                    k == IF block \in DOMAIN used THEN used[block] ELSE 0
                IN  /\ result'.k >= k /\ result'.k <= m_order
                    /\ result'.work = result'.k - k]_vars

\* C15 witness: a free that merged twice on the way up, in a run every build repeats
C15_Witness ==
    Certain /\ result.op = "free" /\ result.work >= 2

\* C16: a successful alloc with target order k takes the head of the lowest list
\* j >= k that is not empty, leaves exactly the upper half at (base XOR 2^i) in
\* each list i of k..j-1, changes no other list, and hands out the base of the
\* block it took.
C16_SplitKeepsLists ==
    [][(ops' # ops /\ Certain' /\ result'.op = "alloc" /\ result'.out = "ok") =>
          LET k == result'.k
              base == fromUserSpace(result'.ptr)
              j == CHOOSE x \in k .. m_order :
                      FreeList(x) # << >> /\ \A i \in k .. (x - 1) : FreeList(i) = << >>
          IN  /\ base = Head(FreeList(j))
              /\ FreeLists'[j] = Tail(FreeList(j))
              /\ \A i \in k .. (j - 1) : FreeLists'[i] = <<BitXor(base, 2 ^ i)>>
              /\ \A i \in 0 .. m_order :
                    (i < k \/ i > j) => FreeLists'[i] = FreeLists[i]]_vars

\* C17: each list k of 3..M is a circular doubly linked list: following next
\* from the sentinel comes back to the sentinel over blocks of the arena, no
\* block twice, every prev link points at the node before, and the blocks met
\* are free blocks of order k that no other list and no registry entry overlaps.
C17_ListsWellFormed ==
    Certain =>
       \A k \in 3 .. m_order :
          LET list == FreeList(k)
              n == Len(list)
          IN  /\ Broken \notin Range(list)
              /\ \A a, b \in 1 .. n : a # b => list[a] # list[b]
              /\ m_blocks[k].prev = (IF n = 0 THEN Sent(k) ELSE Blk(list[n]))
              /\ \A a \in 1 .. n :
                    ReadPtr(m_buff, list[a] + PrevOff)
                       = (IF a = 1 THEN Sent(k) ELSE Blk(list[a - 1]))
              /\ \A a \in 1 .. n : \A u \in UsedBlocks \cup (FreeBlocks \ {<<list[a], k>>}) :
                    u[1] = Broken \/ u[1] + 2 ^ u[2] <= list[a] \/ list[a] + 2 ^ k <= u[1]

\* C18: when free of a registered block of order k < M first reads the flag and
\* the order byte of the buddy, the flag is 1 and the order byte is k exactly
\* when the buddy is a block of list k, and the flag is 0 when the buddy is a
\* block of the registry.
C18_FlagsAgree ==
    [][(ops' # ops /\ Certain' /\ result'.op = "free"
            /\ used[fromUserSpace(result'.arg)] < m_order) =>
          LET block == fromUserSpace(result'.arg)
              k == used[block]
              buddy == getBuddy(block, k)
              flagged == /\ m_buff[buddy + AvailOff] = Num(1)
                         /\ m_buff[buddy + KOff] = Num(k)
          IN  /\ flagged <=> buddy \in Range(FreeList(k))
              /\ buddy \in DOMAIN used => m_buff[buddy + AvailOff] = Num(0)]_vars

\* C19: after successful alloc and free calls, whenever the registry is empty the
\* lists hold one block, of order M at offset 0.
C19_EmptyRegistryIsFresh ==
    (Certain /\ used = << >>) => FreeLists = FreshLists

\* C20: the bytes of every live payload start one byte above the base of the
\* block the registry holds for it, end inside that block and inside the arena,
\* and share no byte with another live payload.
C20_PayloadInsideBlock ==
    Certain =>
       /\ \A p \in DOMAIN live :
             LET base == fromUserSpace(p)
             IN  /\ base \in DOMAIN used
                 /\ p = base + 1
                 /\ p + live[p] <= base + 2 ^ used[base]
                 /\ base >= 0 /\ p + live[p] <= ArenaSize
       /\ \A p, q \in DOMAIN live : p # q => (p + live[p] <= q \/ q + live[q] <= p)

====
